---- MODULE Spec2Model ----
\* Funnel analytics dashboard (src/src/components/analytics/funnel_dashboard.py):
\* calculate_funnel_metrics, display_funnel_visualization,
\* display_abandonment_analysis and display_property_comparison, run one after
\* the other over the same list of session dicts, one loop iteration per step.
EXTENDS Integers, Sequences, FiniteSets, TLC

VARIABLES
    sessions,             \* the List[Dict] handed to every function
    pc,                   \* position of the run
    idx,                  \* 1-based position of the running for-loop
    stage_entries,        \* locals of calculate_funnel_metrics
    stage_completions,
    stage_abandonments,
    stage_durations,
    navigation_by_stage,
    total_completed,
    total_abandoned,
    metrics,              \* the dict calculate_funnel_metrics returned
    funnel_rows,          \* what display_funnel_visualization showed
    abandonment_reasons,  \* locals of display_abandonment_analysis
    abandonment_stages,
    property_metrics      \* local of display_property_comparison

vars == <<sessions, pc, idx, stage_entries, stage_completions,
          stage_abandonments, stage_durations, navigation_by_stage,
          total_completed, total_abandoned, metrics, funnel_rows,
          abandonment_reasons, abandonment_stages, property_metrics>>

cfmLocals == <<stage_entries, stage_completions, stage_abandonments,
               stage_durations, navigation_by_stage, total_completed,
               total_abandoned>>

----------------------------------------------------------------------------
\* Bounds of the model

\* longest session list of the aggregation runs
MaxSessions == 3

\* longest session list of the runs over the wider session dicts
MaxRows == 2

----------------------------------------------------------------------------
\* Python values

\* {} : a dict without keys
EmptyDict == [k \in {} |-> 0]

\* a name that is not bound yet
Unbound == [unbound |-> TRUE]

\* d.get(k, default)
Get(d, k, default) == IF k \in DOMAIN d THEN d[k] ELSE default

\* d[k] = v
DictSet(d, k, v) == [x \in (DOMAIN d) \cup {k} |-> IF x = k THEN v ELSE d[x]]

\* a / b, kept as the exact quotient
Div(a, b) == [num |-> a, den |-> b]

\* the int literal 0 where a quotient is expected
Zero == [num |-> 0, den |-> 1]

RECURSIVE SumSeq(_)
SumSeq(s) == IF s = <<>> THEN 0 ELSE Head(s) + SumSeq(Tail(s))

RECURSIVE SumDict(_)
SumDict(d) ==
    IF DOMAIN d = {} THEN 0
    ELSE LET k == CHOOSE x \in DOMAIN d : TRUE
         IN d[k] + SumDict([x \in (DOMAIN d) \ {k} |-> d[x]])

----------------------------------------------------------------------------
\* Stage configuration

STAGE_ORDER == <<"widget_activation", "search_configuration", "room_selection",
                 "rate_selection", "booking_completion">>

StageSet == {STAGE_ORDER[i] : i \in 1..Len(STAGE_ORDER)}

\* STAGE_ORDER.index(stage), 0-based as in the source
StageIndex(stage) == (CHOOSE i \in 1..Len(STAGE_ORDER) : STAGE_ORDER[i] = stage) - 1

\* f"{from_stage}_to_{to_stage}"
ConvKey(from_stage, to_stage) == from_stage \o "_to_" \o to_stage

----------------------------------------------------------------------------
\* The session dicts the runs are made of

\* stage and completion flag
CoreSessions ==
    {[furthest_stage |-> f, is_completed |-> c] :
        f \in StageSet \cup {"unknown"}, c \in BOOLEAN}

\* stage and both flags
FlagSessions ==
    {[furthest_stage |-> f, is_completed |-> c, is_abandoned |-> a] :
        f \in StageSet \cup {"unknown"}, c \in BOOLEAN, a \in BOOLEAN}

\* stages in and out of STAGE_ORDER (or no stage key), flags, with or without
\* duration and navigation counts
FrameSessions ==
    {f @@ [is_completed |-> c, is_abandoned |-> a] @@ m :
        f \in {EmptyDict} \cup {[furthest_stage |-> x] :
                                   x \in {"unknown", "checkout", "rate_selection"}},
        c \in BOOLEAN, a \in BOOLEAN,
        m \in {EmptyDict, [duration_seconds |-> 45, navigation_backs |-> 2]}}

\* the signals of the abandonment reasons on both sides of every threshold
ReasonSessions ==
    {[furthest_stage |-> "room_selection", is_completed |-> FALSE,
      is_abandoned |-> a, navigation_backs |-> n, duration_seconds |-> d,
      total_events |-> e] :
        a \in BOOLEAN, n \in {3, 4}, d \in {29, 30}, e \in {4, 5}}
    \cup {[furthest_stage |-> "rate_selection", is_completed |-> FALSE,
            is_abandoned |-> TRUE, navigation_backs |-> 0,
            duration_seconds |-> 10, total_events |-> 2]}

\* sessions of two properties and sessions without property_id
PropertySessions ==
    {p @@ [furthest_stage |-> f, is_completed |-> c] :
        p \in {EmptyDict} \cup {[property_id |-> x] : x \in {"hotel_a", "hotel_b"}},
        f \in {"unknown", "widget_activation", "booking_completion"},
        c \in BOOLEAN}

SeqsUpTo(S, n) == UNION {[1..k -> S] : k \in 0..n}

----------------------------------------------------------------------------
\* calculate_funnel_metrics

ZeroCounters == [stage \in StageSet |-> 0]

\* faulty variant: only the furthest stage is credited, no fill
FillRangeFurthestOnly(stage_index) == {stage_index + 1}

\* faulty variant: range(stage_index), the furthest stage itself is left out
FillRangeShort(stage_index) == 1..stage_index

\* range(stage_index + 1), as 1-based positions of STAGE_ORDER
FillRange(stage_index) == 1..(stage_index + 1)

\* faulty variant: a stage outside STAGE_ORDER is credited to the first stage
FilledStagesUnknownAsFirst(furthest_stage) ==
    IF furthest_stage \in StageSet
    THEN {STAGE_ORDER[i] : i \in FillRange(StageIndex(furthest_stage))}
    ELSE {STAGE_ORDER[1]}

\* the stages one session is credited to
FilledStages(furthest_stage) ==
    IF furthest_stage \in StageSet
    THEN {STAGE_ORDER[i] : i \in FillRange(StageIndex(furthest_stage))}
    ELSE {}

\* faulty variant: the completion counters ignore is_completed
CompletedStagesAll(filled, is_completed) == filled

\* if is_completed: stage_completions[STAGE_ORDER[i]] += 1, inside the fill
CompletedStages(filled, is_completed) == IF is_completed THEN filled ELSE {}

\* faulty variant: abandonments are range-filled like the entries
AbandonedStagesFilled(furthest_stage, is_abandoned, abandonments) ==
    IF is_abandoned THEN FilledStages(furthest_stage) ELSE {}

\* if is_abandoned: ... if furthest_stage in stage_abandonments
AbandonedStages(furthest_stage, is_abandoned, abandonments) ==
    IF is_abandoned /\ furthest_stage \in DOMAIN abandonments
    THEN {furthest_stage} ELSE {}

\* faulty variant: the empty list returns a dict of zeroed counters
ZeroedResult ==
    [total_sessions |-> 0, completed_sessions |-> 0, abandoned_sessions |-> 0,
     overall_conversion |-> Zero, stage_entries |-> ZeroCounters,
     stage_completions |-> ZeroCounters, stage_abandonments |-> ZeroCounters,
     conversion_rates |-> EmptyDict, avg_durations |-> EmptyDict,
     navigation_by_stage |-> EmptyDict]

\* return {}
EmptyResult == EmptyDict

CfmReturnEmpty ==
    /\ pc = "cfm_entry"
    /\ sessions = <<>>
    /\ metrics' = EmptyResult
    /\ pc' = "dfv_entry"
    /\ UNCHANGED <<sessions, idx, cfmLocals, funnel_rows, abandonment_reasons,
                   abandonment_stages, property_metrics>>

CfmInit ==
    /\ pc = "cfm_entry"
    /\ sessions # <<>>
    /\ stage_entries' = ZeroCounters
    /\ stage_completions' = ZeroCounters
    /\ stage_abandonments' = ZeroCounters
    /\ stage_durations' = EmptyDict
    /\ navigation_by_stage' = EmptyDict
    /\ total_completed' = 0
    /\ total_abandoned' = 0
    /\ idx' = 1
    /\ pc' = "cfm_loop"
    /\ UNCHANGED <<sessions, metrics, funnel_rows, abandonment_reasons,
                   abandonment_stages, property_metrics>>

CfmLoop ==
    /\ pc = "cfm_loop"
    /\ idx <= Len(sessions)
    /\ LET session == sessions[idx]
           furthest_stage == Get(session, "furthest_stage", "unknown")
           is_completed == Get(session, "is_completed", FALSE)
           is_abandoned == Get(session, "is_abandoned", FALSE)
           duration == Get(session, "duration_seconds", 0)
           nav_backs == Get(session, "navigation_backs", 0)
           filled == FilledStages(furthest_stage)
           completed == CompletedStages(filled, is_completed)
           hit == AbandonedStages(furthest_stage, is_abandoned, stage_abandonments)
       IN /\ total_completed' = IF is_completed THEN total_completed + 1
                                ELSE total_completed
          /\ total_abandoned' = IF is_abandoned THEN total_abandoned + 1
                                ELSE total_abandoned
          /\ stage_abandonments' =
                [s \in DOMAIN stage_abandonments |->
                    IF s \in hit THEN stage_abandonments[s] + 1
                    ELSE stage_abandonments[s]]
          /\ stage_entries' =
                [s \in StageSet |->
                    IF s \in filled THEN stage_entries[s] + 1 ELSE stage_entries[s]]
          /\ stage_completions' =
                [s \in StageSet |->
                    IF s \in completed THEN stage_completions[s] + 1
                    ELSE stage_completions[s]]
          /\ stage_durations' =
                IF furthest_stage \in StageSet
                THEN DictSet(stage_durations, furthest_stage,
                             Append(Get(stage_durations, furthest_stage, <<>>),
                                    duration))
                ELSE stage_durations
          /\ navigation_by_stage' =
                IF furthest_stage \in StageSet /\ nav_backs > 0
                THEN DictSet(navigation_by_stage, furthest_stage,
                             Get(navigation_by_stage, furthest_stage, 0) + nav_backs)
                ELSE navigation_by_stage
    /\ idx' = idx + 1
    /\ UNCHANGED <<sessions, pc, metrics, funnel_rows, abandonment_reasons,
                   abandonment_stages, property_metrics>>

\* faulty variant: every adjacent pair gets an entry, the guard is dropped
RatedPairsAll(entries) == 1..(Len(STAGE_ORDER) - 1)

\* the adjacent pairs that get a conversion_rates entry
RatedPairs(entries) ==
    {i \in 1..(Len(STAGE_ORDER) - 1) : entries[STAGE_ORDER[i]] > 0}

ConversionRates(entries) ==
    LET keys == {ConvKey(STAGE_ORDER[i], STAGE_ORDER[i + 1]) : i \in RatedPairs(entries)}
    IN [k \in keys |->
          LET i == CHOOSE j \in RatedPairs(entries) :
                      ConvKey(STAGE_ORDER[j], STAGE_ORDER[j + 1]) = k
          IN Div(entries[STAGE_ORDER[i + 1]], entries[STAGE_ORDER[i]])]

OverallConversion(completed, entries) ==
    IF entries["widget_activation"] > 0
    THEN Div(completed, entries["widget_activation"])
    ELSE Zero

AvgDurations(durations) ==
    [stage \in {s \in DOMAIN durations : durations[s] # <<>>} |->
        Div(SumSeq(durations[stage]), Len(durations[stage]))]

CfmReturn ==
    /\ pc = "cfm_loop"
    /\ idx > Len(sessions)
    /\ metrics' = [total_sessions |-> Len(sessions),
                   completed_sessions |-> total_completed,
                   abandoned_sessions |-> total_abandoned,
                   overall_conversion |->
                       OverallConversion(total_completed, stage_entries),
                   stage_entries |-> stage_entries,
                   stage_completions |-> stage_completions,
                   stage_abandonments |-> stage_abandonments,
                   conversion_rates |-> ConversionRates(stage_entries),
                   avg_durations |-> AvgDurations(stage_durations),
                   navigation_by_stage |-> navigation_by_stage]
    /\ pc' = "dfv_entry"
    /\ UNCHANGED <<sessions, idx, cfmLocals, funnel_rows, abandonment_reasons,
                   abandonment_stages, property_metrics>>

----------------------------------------------------------------------------
\* display_funnel_visualization: the conversion shown under every stage

DfvNoData ==
    /\ pc = "dfv_entry"
    /\ metrics = EmptyDict
    /\ funnel_rows' = "No data available"
    /\ pc' = "daa_entry"
    /\ UNCHANGED <<sessions, idx, cfmLocals, metrics, abandonment_reasons,
                   abandonment_stages, property_metrics>>

DfvShow ==
    /\ pc = "dfv_entry"
    /\ metrics # EmptyDict
    /\ funnel_rows' =
          [i \in 1..(Len(STAGE_ORDER) - 1) |->
              Get(metrics["conversion_rates"],
                  ConvKey(STAGE_ORDER[i], STAGE_ORDER[i + 1]), Zero)]
    /\ pc' = "daa_entry"
    /\ UNCHANGED <<sessions, idx, cfmLocals, metrics, abandonment_reasons,
                   abandonment_stages, property_metrics>>

----------------------------------------------------------------------------
\* display_abandonment_analysis

\* faulty variant: the event-count rule is tried before the duration rule
AbandonmentReasonSwapped(nav_backs, duration, events) ==
    IF nav_backs > 3 THEN "Excessive Navigation"
    ELSE IF events < 5 THEN "Low Engagement"
    ELSE IF duration < 30 THEN "Quick Bounce"
    ELSE "Other/Timeout"

AbandonmentReason(nav_backs, duration, events) ==
    IF nav_backs > 3 THEN "Excessive Navigation"
    ELSE IF duration < 30 THEN "Quick Bounce"
    ELSE IF events < 5 THEN "Low Engagement"
    ELSE "Other/Timeout"

DaaInit ==
    /\ pc = "daa_entry"
    /\ abandonment_reasons' = EmptyDict
    /\ abandonment_stages' = EmptyDict
    /\ idx' = 1
    /\ pc' = "daa_loop"
    /\ UNCHANGED <<sessions, cfmLocals, metrics, funnel_rows, property_metrics>>

DaaLoop ==
    /\ pc = "daa_loop"
    /\ idx <= Len(sessions)
    /\ LET session == sessions[idx]
       IN IF Get(session, "is_abandoned", FALSE)
          THEN LET stage == Get(session, "furthest_stage", "unknown")
                   nav_backs == Get(session, "navigation_backs", 0)
                   duration == Get(session, "duration_seconds", 0)
                   events == Get(session, "total_events", 0)
                   reason == AbandonmentReason(nav_backs, duration, events)
               IN /\ abandonment_stages' =
                        DictSet(abandonment_stages, stage,
                                Get(abandonment_stages, stage, 0) + 1)
                  /\ abandonment_reasons' =
                        DictSet(abandonment_reasons, reason,
                                Get(abandonment_reasons, reason, 0) + 1)
          ELSE UNCHANGED <<abandonment_stages, abandonment_reasons>>
    /\ idx' = idx + 1
    /\ UNCHANGED <<sessions, pc, cfmLocals, metrics, funnel_rows, property_metrics>>

DaaDisplay ==
    /\ pc = "daa_loop"
    /\ idx > Len(sessions)
    /\ pc' = "dpc_entry"
    /\ UNCHANGED <<sessions, idx, cfmLocals, metrics, funnel_rows,
                   abandonment_reasons, abandonment_stages, property_metrics>>

----------------------------------------------------------------------------
\* display_property_comparison

\* the defaultdict's lambda
NewPropertyMetrics ==
    [sessions |-> 0, completions |-> 0, abandonments |-> 0, stages |-> EmptyDict]

\* faulty variant: a fresh entry for every session, the group is not kept
PropertyEntryFresh(table, prop) == NewPropertyMetrics

\* property_metrics[prop], the defaultdict making the entry on first use
PropertyEntry(table, prop) == Get(table, prop, NewPropertyMetrics)

DpcInit ==
    /\ pc = "dpc_entry"
    /\ property_metrics' = EmptyDict
    /\ idx' = 1
    /\ pc' = "dpc_loop"
    /\ UNCHANGED <<sessions, cfmLocals, metrics, funnel_rows,
                   abandonment_reasons, abandonment_stages>>

DpcLoop ==
    /\ pc = "dpc_loop"
    /\ idx <= Len(sessions)
    /\ LET session == sessions[idx]
           prop == Get(session, "property_id", "Unknown")
           e0 == PropertyEntry(property_metrics, prop)
           e1 == [e0 EXCEPT !.sessions = @ + 1]
           e2 == IF Get(session, "is_completed", FALSE)
                 THEN [e1 EXCEPT !.completions = @ + 1] ELSE e1
           e3 == IF Get(session, "is_abandoned", FALSE)
                 THEN [e2 EXCEPT !.abandonments = @ + 1] ELSE e2
           stage == Get(session, "furthest_stage", "unknown")
           e4 == IF stage \in StageSet
                 THEN [e3 EXCEPT !.stages =
                          DictSet(@, stage, Get(@, stage, 0) + 1)]
                 ELSE e3
       IN property_metrics' = DictSet(property_metrics, prop, e4)
    /\ idx' = idx + 1
    /\ UNCHANGED <<sessions, pc, cfmLocals, metrics, funnel_rows,
                   abandonment_reasons, abandonment_stages>>

DpcDisplay ==
    /\ pc = "dpc_loop"
    /\ idx > Len(sessions)
    /\ pc' = "done"
    /\ UNCHANGED <<sessions, idx, cfmLocals, metrics, funnel_rows,
                   abandonment_reasons, abandonment_stages, property_metrics>>

----------------------------------------------------------------------------
\* Specifications

InitWith(inputs) ==
    /\ sessions \in inputs
    /\ pc = "cfm_entry"
    /\ idx = 0
    /\ stage_entries = Unbound
    /\ stage_completions = Unbound
    /\ stage_abandonments = Unbound
    /\ stage_durations = Unbound
    /\ navigation_by_stage = Unbound
    /\ total_completed = 0
    /\ total_abandoned = 0
    /\ metrics = Unbound
    /\ funnel_rows = "not shown"
    /\ abandonment_reasons = Unbound
    /\ abandonment_stages = Unbound
    /\ property_metrics = Unbound

Init == InitWith(SeqsUpTo(CoreSessions, MaxSessions))

Next ==
    \/ CfmReturnEmpty
    \/ CfmInit
    \/ CfmLoop
    \/ CfmReturn
    \/ DfvNoData
    \/ DfvShow
    \/ DaaInit
    \/ DaaLoop
    \/ DaaDisplay
    \/ DpcInit
    \/ DpcLoop
    \/ DpcDisplay

Spec == Init /\ [][Next]_vars

InitFlags == InitWith(SeqsUpTo(FlagSessions, MaxRows))
SpecFlags == InitFlags /\ [][Next]_vars

InitFrame == InitWith(SeqsUpTo(FrameSessions, MaxRows))
SpecFrame == InitFrame /\ [][Next]_vars

InitReasons == InitWith(SeqsUpTo(ReasonSessions, MaxRows))
SpecReasons == InitReasons /\ [][Next]_vars

InitProperties == InitWith(SeqsUpTo(PropertySessions, MaxRows))
SpecProperties == InitProperties /\ [][Next]_vars

----------------------------------------------------------------------------
\* Vocabulary of the properties

Position == [widget_activation |-> 1, search_configuration |-> 2,
             room_selection |-> 3, rate_selection |-> 4, booking_completion |-> 5]

KnownStages == DOMAIN Position

AdjacentPairs == {<<"widget_activation", "search_configuration">>,
                  <<"search_configuration", "room_selection">>,
                  <<"room_selection", "rate_selection">>,
                  <<"rate_selection", "booking_completion">>}

PairKey == [p \in AdjacentPairs |->
    CASE p[1] = "widget_activation" -> "widget_activation_to_search_configuration"
      [] p[1] = "search_configuration" -> "search_configuration_to_room_selection"
      [] p[1] = "room_selection" -> "room_selection_to_rate_selection"
      [] p[1] = "rate_selection" -> "rate_selection_to_booking_completion"]

StageOfRow(r) == IF "furthest_stage" \in DOMAIN r THEN r["furthest_stage"] ELSE "unknown"
HasKnownStage(r) == StageOfRow(r) \in KnownStages
FlagOfRow(r, k) == k \in DOMAIN r /\ r[k]
NumberOfRow(r, k) == IF k \in DOMAIN r THEN r[k] ELSE 0
PropertyOfRow(r) == IF "property_id" \in DOMAIN r THEN r["property_id"] ELSE "Unknown"

\* the session reached stage s: its furthest stage is known and not before s
Reached(r, s) == HasKnownStage(r) /\ Position[StageOfRow(r)] >= Position[s]

NonIncreasing(counts) == \A p \in AdjacentPairs : counts[p[2]] <= counts[p[1]]

InUnit(q) == q.den > 0 /\ 0 <= q.num /\ q.num <= q.den

\* the counters of calculate_funnel_metrics exist, and the sessions they cover
Counting == sessions # <<>> /\ pc # "cfm_entry"
Processed == IF pc = "cfm_loop" THEN SubSeq(sessions, 1, idx - 1) ELSE sessions
Returned == pc \notin {"cfm_entry", "cfm_loop"}
HasMetrics == sessions # <<>> /\ Returned

\* the tables of display_abandonment_analysis exist, and the sessions they cover
Judging == pc \in {"daa_loop", "dpc_entry", "dpc_loop", "done"}
Judged == IF pc = "daa_loop" THEN SubSeq(sessions, 1, idx - 1) ELSE sessions

\* the table of display_property_comparison exists, and the sessions it covers
Grouping == pc \in {"dpc_loop", "done"}
Grouped == IF pc = "dpc_loop" THEN SubSeq(sessions, 1, idx - 1) ELSE sessions

----------------------------------------------------------------------------
\* C1: after every prefix of the input, and in the returned dict, stage_entries
\* is non-increasing along STAGE_ORDER, whatever furthest_stage values
\* (known or "unknown") the sessions carry.
C1_EntriesNonIncreasing ==
    /\ Counting => NonIncreasing(stage_entries)
    /\ HasMetrics => NonIncreasing(metrics["stage_entries"])

C1_Witness ==
    /\ Counting
    /\ \E i \in 1..Len(Processed) : ~HasKnownStage(Processed[i])
    /\ stage_entries["booking_completion"] > 0
    /\ stage_entries["widget_activation"] > stage_entries["booking_completion"]

\* C2: every rate calculate_funnel_metrics returns lies in [0,1]: each
\* conversion_rates value and overall_conversion; completed_sessions never
\* exceeds stage_entries["widget_activation"] when that count is positive.
C2_RatesWithinUnit ==
    HasMetrics =>
        /\ \A k \in DOMAIN metrics["conversion_rates"] :
              InUnit(metrics["conversion_rates"][k])
        /\ InUnit(metrics["overall_conversion"])
        /\ metrics["stage_entries"]["widget_activation"] > 0 =>
              metrics["completed_sessions"]
                  <= metrics["stage_entries"]["widget_activation"]

\* C3 as stated: for a non-empty input conversion_rates holds an entry for each
\* of the 4 adjacent pairs, the quotient of the two entry counts, and the entry
\* is there with value 0 when the pair's first stage has no entries.
C3_EveryPairHasEntry ==
    HasMetrics =>
        \A p \in AdjacentPairs :
            /\ PairKey[p] \in DOMAIN metrics["conversion_rates"]
            /\ metrics["conversion_rates"][PairKey[p]] =
                  IF metrics["stage_entries"][p[1]] = 0 THEN Zero
                  ELSE [num |-> metrics["stage_entries"][p[2]],
                        den |-> metrics["stage_entries"][p[1]]]

\* C3 amended: for a non-empty input conversion_rates holds an entry for an
\* adjacent pair exactly when the pair's first stage has entries, the quotient
\* stage_entries[next] / stage_entries[from]; a pair whose first stage has no
\* entries has no key, and display_funnel_visualization reads it as 0.
C3_PairHasEntryIffEntered ==
    /\ HasMetrics =>
          /\ DOMAIN metrics["conversion_rates"] =
                {PairKey[p] : p \in {q \in AdjacentPairs :
                                        metrics["stage_entries"][q[1]] > 0}}
          /\ \A p \in AdjacentPairs :
                metrics["stage_entries"][p[1]] > 0 =>
                    /\ metrics["conversion_rates"][PairKey[p]]["num"] =
                          metrics["stage_entries"][p[2]]
                    /\ metrics["conversion_rates"][PairKey[p]]["den"] =
                          metrics["stage_entries"][p[1]]
    /\ (HasMetrics /\ pc \notin {"dfv_entry"}) =>
          \A p \in AdjacentPairs :
              metrics["stage_entries"][p[1]] = 0 =>
                  funnel_rows[Position[p[1]]] = Zero

C3_Witness ==
    /\ HasMetrics
    /\ pc = "daa_entry"
    /\ metrics["stage_entries"]["search_configuration"] > 0
    /\ metrics["stage_entries"]["room_selection"] = 0
    /\ "search_configuration_to_room_selection" \in DOMAIN metrics["conversion_rates"]
    /\ "room_selection_to_rate_selection" \notin DOMAIN metrics["conversion_rates"]
    /\ funnel_rows[3] = Zero

\* C4 as stated: the empty list yields a zeroed metrics object: the three
\* session totals and overall_conversion 0 and every per-stage counter present
\* with value 0.
C4_EmptyGivesZeroedMetrics ==
    (sessions = <<>> /\ Returned) =>
        /\ {"total_sessions", "completed_sessions", "abandoned_sessions",
            "overall_conversion", "stage_entries", "stage_completions",
            "stage_abandonments"} \subseteq DOMAIN metrics
        /\ metrics["total_sessions"] = 0
        /\ metrics["completed_sessions"] = 0
        /\ metrics["abandoned_sessions"] = 0
        /\ \A s \in KnownStages :
              /\ metrics["stage_entries"][s] = 0
              /\ metrics["stage_completions"][s] = 0
              /\ metrics["stage_abandonments"][s] = 0

\* C4 amended: the empty list yields, without raising, the empty dict: no
\* totals and no per-stage counters at all; display_funnel_visualization
\* reports it as "No data available".
C4_EmptyGivesEmptyDict ==
    (sessions = <<>> /\ Returned) =>
        /\ DOMAIN metrics = {}
        /\ pc # "dfv_entry" => funnel_rows = "No data available"

C4_Witness ==
    /\ sessions = <<>>
    /\ pc = "daa_entry"
    /\ DOMAIN metrics = {}
    /\ funnel_rows = "No data available"

\* C5: monotonic fill: stage_entries[s] is the number of sessions whose
\* furthest_stage is a known stage at a position >= the position of s, after
\* every prefix and in the returned dict.
C5_MonotonicFill ==
    /\ Counting =>
          \A s \in KnownStages :
              stage_entries[s] =
                  Cardinality({i \in 1..Len(Processed) : Reached(Processed[i], s)})
    /\ HasMetrics =>
          \A s \in KnownStages :
              metrics["stage_entries"][s] =
                  Cardinality({i \in 1..Len(sessions) : Reached(sessions[i], s)})

C5_Witness ==
    /\ HasMetrics
    /\ sessions = <<[furthest_stage |-> "room_selection", is_completed |-> TRUE],
                    [furthest_stage |-> "rate_selection", is_completed |-> TRUE],
                    [furthest_stage |-> "booking_completion", is_completed |-> TRUE]>>
    /\ metrics["stage_entries"] =
          [widget_activation |-> 3, search_configuration |-> 3,
           room_selection |-> 3, rate_selection |-> 2, booking_completion |-> 1]

\* C6: processing a session whose furthest_stage is "unknown", absent or
\* outside STAGE_ORDER adds one to total_completed / total_abandoned as its
\* flags say and leaves stage_entries, stage_completions, stage_abandonments,
\* the duration lists and navigation_by_stage as they were; total_sessions
\* counts every session of the list.
C6_UnknownStep ==
    [][(pc = "cfm_loop" /\ idx <= Len(sessions) /\ ~HasKnownStage(sessions[idx])) =>
          /\ stage_entries' = stage_entries
          /\ stage_completions' = stage_completions
          /\ stage_abandonments' = stage_abandonments
          /\ stage_durations' = stage_durations
          /\ navigation_by_stage' = navigation_by_stage
          /\ total_completed' = total_completed +
                (IF FlagOfRow(sessions[idx], "is_completed") THEN 1 ELSE 0)
          /\ total_abandoned' = total_abandoned +
                (IF FlagOfRow(sessions[idx], "is_abandoned") THEN 1 ELSE 0)]_vars

C6_Totals ==
    HasMetrics =>
        /\ metrics["total_sessions"] =
              Cardinality({i \in 1..Len(sessions) : HasKnownStage(sessions[i])})
              + Cardinality({i \in 1..Len(sessions) : ~HasKnownStage(sessions[i])})
        /\ metrics["completed_sessions"] =
              Cardinality({i \in 1..Len(sessions) :
                              FlagOfRow(sessions[i], "is_completed")})
        /\ metrics["abandoned_sessions"] =
              Cardinality({i \in 1..Len(sessions) :
                              FlagOfRow(sessions[i], "is_abandoned")})
        /\ \A s \in KnownStages :
              metrics["stage_entries"][s] <=
                  Cardinality({i \in 1..Len(sessions) : HasKnownStage(sessions[i])})

C6_UnknownStageFrame == C6_UnknownStep /\ []C6_Totals

C6_Witness ==
    /\ pc = "cfm_loop"
    /\ idx = 3
    /\ StageOfRow(sessions[1]) = "rate_selection"
    /\ NumberOfRow(sessions[1], "navigation_backs") > 0
    /\ ~HasKnownStage(sessions[2])
    /\ NumberOfRow(sessions[2], "navigation_backs") > 0
    /\ FlagOfRow(sessions[2], "is_completed")
    /\ FlagOfRow(sessions[2], "is_abandoned")
    /\ ~FlagOfRow(sessions[1], "is_completed")
    /\ total_completed = 1
    /\ stage_entries["widget_activation"] = 1
    /\ stage_completions["widget_activation"] = 0
    /\ DOMAIN stage_durations = {"rate_selection"}
    /\ navigation_by_stage = [rate_selection |-> 2]

\* C7: every abandoned session gets exactly one reason, the first that matches
\* of: Excessive Navigation (navigation_backs > 3), Quick Bounce
\* (duration_seconds < 30), Low Engagement (total_events < 5), Other/Timeout;
\* sessions that are not abandoned get none, so the reason counts sum to the
\* number of abandoned sessions.
ExpectedReasons(r) ==
    {x \in {"Excessive Navigation", "Quick Bounce", "Low Engagement", "Other/Timeout"} :
        \/ x = "Excessive Navigation" /\ NumberOfRow(r, "navigation_backs") > 3
        \/ x = "Quick Bounce" /\ NumberOfRow(r, "navigation_backs") <= 3
                              /\ NumberOfRow(r, "duration_seconds") < 30
        \/ x = "Low Engagement" /\ NumberOfRow(r, "navigation_backs") <= 3
                                /\ NumberOfRow(r, "duration_seconds") >= 30
                                /\ NumberOfRow(r, "total_events") < 5
        \/ x = "Other/Timeout" /\ NumberOfRow(r, "navigation_backs") <= 3
                               /\ NumberOfRow(r, "duration_seconds") >= 30
                               /\ NumberOfRow(r, "total_events") >= 5}

C7_FirstMatchingReason ==
    Judging =>
        /\ DOMAIN abandonment_reasons \subseteq
              {"Excessive Navigation", "Quick Bounce", "Low Engagement", "Other/Timeout"}
        /\ \A x \in {"Excessive Navigation", "Quick Bounce", "Low Engagement",
                     "Other/Timeout"} :
              (IF x \in DOMAIN abandonment_reasons THEN abandonment_reasons[x] ELSE 0)
                  = Cardinality({i \in 1..Len(Judged) :
                                    /\ FlagOfRow(Judged[i], "is_abandoned")
                                    /\ ExpectedReasons(Judged[i]) = {x}})
        /\ SumDict(abandonment_reasons) =
              Cardinality({i \in 1..Len(Judged) : FlagOfRow(Judged[i], "is_abandoned")})

C7_Witness ==
    /\ pc = "daa_loop"
    /\ idx = 3
    /\ sessions[1] = [furthest_stage |-> "rate_selection", is_completed |-> FALSE,
                      is_abandoned |-> TRUE, navigation_backs |-> 0,
                      duration_seconds |-> 10, total_events |-> 2]
    /\ ~FlagOfRow(sessions[2], "is_abandoned")
    /\ abandonment_reasons = [x \in {"Quick Bounce"} |-> 1]

\* C8: the per-property session counts of display_property_comparison (sessions
\* without property_id under "Unknown") count every session in exactly one
\* group and sum to total_sessions of calculate_funnel_metrics on the same
\* non-empty list.
C8_PropertyCountsSumToTotal ==
    Grouping =>
        /\ DOMAIN property_metrics = {PropertyOfRow(Grouped[i]) : i \in 1..Len(Grouped)}
        /\ \A p \in DOMAIN property_metrics :
              property_metrics[p]["sessions"] =
                  Cardinality({i \in 1..Len(Grouped) : PropertyOfRow(Grouped[i]) = p})
        /\ SumDict([p \in DOMAIN property_metrics |-> property_metrics[p]["sessions"]])
              = Len(Grouped)
        /\ (pc = "done" /\ sessions # <<>>) =>
              SumDict([p \in DOMAIN property_metrics |->
                          property_metrics[p]["sessions"]])
                  = metrics["total_sessions"]

C8_Witness ==
    /\ pc = "done"
    /\ Len(sessions) = 2
    /\ "property_id" \notin DOMAIN sessions[1]
    /\ "property_id" \notin DOMAIN sessions[2]
    /\ DOMAIN property_metrics = {"Unknown"}
    /\ property_metrics["Unknown"]["sessions"] = 2
    /\ metrics["total_sessions"] = 2

\* C9: every abandoned session adds one to abandoned_sessions and, when its
\* furthest_stage is a known stage, one to stage_abandonments of that stage
\* alone, whether or not it is also completed; so stage_abandonments sums to
\* the number of abandoned sessions with a known furthest stage.
C9_AbandonmentsAtFurthestStage ==
    Counting =>
        /\ total_abandoned =
              Cardinality({i \in 1..Len(Processed) :
                              FlagOfRow(Processed[i], "is_abandoned")})
        /\ total_completed =
              Cardinality({i \in 1..Len(Processed) :
                              FlagOfRow(Processed[i], "is_completed")})
        /\ DOMAIN stage_abandonments = KnownStages
        /\ \A s \in KnownStages :
              stage_abandonments[s] =
                  Cardinality({i \in 1..Len(Processed) :
                                  /\ FlagOfRow(Processed[i], "is_abandoned")
                                  /\ StageOfRow(Processed[i]) = s})
        /\ SumDict(stage_abandonments) =
              Cardinality({i \in 1..Len(Processed) :
                              /\ FlagOfRow(Processed[i], "is_abandoned")
                              /\ HasKnownStage(Processed[i])})

C9_Witness ==
    /\ pc = "cfm_loop"
    /\ idx = 2
    /\ StageOfRow(sessions[1]) = "room_selection"
    /\ FlagOfRow(sessions[1], "is_completed")
    /\ FlagOfRow(sessions[1], "is_abandoned")
    /\ total_completed = 1
    /\ total_abandoned = 1
    /\ stage_completions["room_selection"] = 1
    /\ stage_abandonments["room_selection"] = 1
    /\ stage_abandonments["widget_activation"] = 0

\* C10: stage_completions[s] is the number of completed sessions whose
\* furthest_stage is a known stage at a position >= the position of s; after
\* every prefix it is at most stage_entries[s] and non-increasing along
\* STAGE_ORDER.
C10_CompletionsFill ==
    /\ Counting =>
          /\ \A s \in KnownStages :
                /\ stage_completions[s] =
                      Cardinality({i \in 1..Len(Processed) :
                                      /\ FlagOfRow(Processed[i], "is_completed")
                                      /\ Reached(Processed[i], s)})
                /\ stage_completions[s] <= stage_entries[s]
          /\ NonIncreasing(stage_completions)
    /\ HasMetrics =>
          \A s \in KnownStages :
              metrics["stage_completions"][s] =
                  Cardinality({i \in 1..Len(sessions) :
                                  /\ FlagOfRow(sessions[i], "is_completed")
                                  /\ Reached(sessions[i], s)})

C10_Witness ==
    /\ Counting
    /\ stage_completions["booking_completion"] > 0
    /\ stage_completions["widget_activation"] > stage_completions["booking_completion"]
    /\ stage_entries["widget_activation"] > stage_completions["widget_activation"]

====
